---- MODULE Spec2Model ----
(***************************************************************************)
(* random-speaker: a recurring sound is scheduled at a random moment       *)
(* inside a weekday / time-of-day window (src/src/main.rs).  The module    *)
(* models the window functions, schedule_new_play, the next-play file and  *)
(* the select! loop of Context::run with its wake() pass.                  *)
(*                                                                         *)
(* Time is counted in ticks.  A NaiveDateTime is the integer               *)
(* day * TicksPerDay + time-of-day; day 0 is a Monday.  chrono's date      *)
(* range is scaled down to MinDay..MaxDay: date arithmetic that leaves it  *)
(* panics, as `NaiveDateTime +/- TimeDelta` does in chrono.                *)
(***************************************************************************)
EXTENDS Integers, Sequences, FiniteSets, TLC

\* ------------------------------------------------------------------ bounds
\* Ticks in a day; the first and the last day of the date range.
TicksPerDay == 4
MinDay == 0
MaxDay == 90
\* The clock runs over ClockSpan ticks; a handler's successive clock reads
\* are at most MaxDrift apart.
ClockSpan == 3
MaxDrift == 1
\* Batches waiting in the channel; play_sound calls counted without a
\* completed write; the largest offset schedule_new_play is tried with.
MaxPending == 1
MaxPlays == 2
MaxOffset == 9

\* ------------------------------------------------------- program constants
DaysPerWeek == 7
\* chrono::Weekday, counted from Monday.
Mon == 0
Fri == 4
\* The value of a date computation that panicked (overflow of the date range).
Panic == -1

MinTime == MinDay * TicksPerDay
MaxTime == (MaxDay + 1) * TicksPerDay - 1
\* tokio::time::sleep(Duration::MAX): a deadline no clock value reaches.
FarFuture == MaxTime + 1

\* --------------------------------------------------------------- chrono
DateOf(time) == time \div TicksPerDay
TimeOf(time) == time % TicksPerDay
WeekdayOf(time) == DateOf(time) % DaysPerWeek
\* NaiveDateTime::new(date, time)
NewDateTime(date, tod) == date * TicksPerDay + tod

\* NaiveDateTime + duration: panics when the result leaves the date range.
AddDur(time, d) ==
    IF time = Panic THEN Panic
    ELSE IF time + d < MinTime \/ time + d > MaxTime THEN Panic
    ELSE time + d

\* time += / -= chrono::Duration::days(n)
AddDays(time, n) == AddDur(time, n * TicksPerDay)

\* ------------------------------------------------------------ the window
\* Context::is_time_valid with `||` in place of `&&`.
IsTimeValidOr(cfg, time) ==
    \/ WeekdayOf(time) \in cfg.weekdays
    \/ (cfg.start_time <= TimeOf(time) /\ TimeOf(time) <= cfg.end_time)

is_time_valid(cfg, time) ==
    /\ WeekdayOf(time) \in cfg.weekdays
    /\ cfg.start_time <= TimeOf(time) /\ TimeOf(time) <= cfg.end_time

\* The while loops of the snap functions: step a day at a time in direction
\* dir (-1 or 1) until the weekday is allowed.
RECURSIVE StepToWeekday(_, _, _)
StepToWeekday(cfg, time, dir) ==
    IF time = Panic THEN Panic
    ELSE IF WeekdayOf(time) \in cfg.weekdays THEN time
    ELSE StepToWeekday(cfg, AddDays(time, dir), dir)

\* The number of turns that loop takes from time, up to and including the
\* one whose date arithmetic panics.
RECURSIVE StepCount(_, _, _)
StepCount(cfg, time, dir) ==
    IF time = Panic THEN 0
    ELSE IF WeekdayOf(time) \in cfg.weekdays THEN 0
    ELSE 1 + StepCount(cfg, AddDays(time, dir), dir)

\* The snap result with the time of day of the stepped time kept, in place
\* of NaiveDateTime::new(time.date(), tod).
AtTimeOfDayKept(time, tod) == time

\* NaiveDateTime::new(time.date(), tod), of a date computation that may
\* have panicked.
AtTimeOfDay(time, tod) ==
    IF time = Panic THEN Panic ELSE NewDateTime(DateOf(time), tod)

find_last_valid_time(cfg, time) ==
    IF is_time_valid(cfg, time) THEN time
    ELSE AtTimeOfDay(
             StepToWeekday(cfg,
                 IF TimeOf(time) < cfg.start_time THEN AddDays(time, -1) ELSE time,
                 -1),
             cfg.end_time)

\* find_next_valid_time without the step of lines 254-256.
FindNextNoDayStep(cfg, time) ==
    IF is_time_valid(cfg, time) THEN time
    ELSE AtTimeOfDay(StepToWeekday(cfg, time, 1), cfg.start_time)

find_next_valid_time(cfg, time) ==
    IF is_time_valid(cfg, time) THEN time
    ELSE AtTimeOfDay(
             StepToWeekday(cfg,
                 IF TimeOf(time) > cfg.end_time THEN AddDays(time, 1) ELSE time,
                 1),
             cfg.start_time)

\* Line 286 without `+ diff`: the overshoot is dropped.
CarryOverNoDiff(last_valid, next_valid, then) == next_valid

\* find_next_valid_time(then) + then.signed_duration_since(last_valid)
CarryOver(last_valid, next_valid, then) ==
    IF last_valid = Panic \/ next_valid = Panic THEN Panic
    ELSE AddDur(next_valid, then - last_valid)

\* One turn of the gap-elision loop body (lines 283-286).
ElideOnce(cfg, then) ==
    CarryOver(find_last_valid_time(cfg, then), find_next_valid_time(cfg, then), then)

\* The gap-elision loop run for one turn only (`if` in place of `while`).
ElideIf(cfg, then) ==
    IF then = Panic THEN Panic
    ELSE IF is_time_valid(cfg, then) THEN then
    ELSE ElideOnce(cfg, then)

\* while !self.is_time_valid(then) { ... }
RECURSIVE ElideLoop(_, _)
ElideLoop(cfg, then) ==
    IF then = Panic THEN Panic
    ELSE IF is_time_valid(cfg, then) THEN then
    ELSE ElideLoop(cfg, ElideOnce(cfg, then))

\* gen_range(lower as f32..upper as f32): the half-open range; empty, the
\* call panics ("cannot sample empty range").
OffsetRange(cfg) == cfg.lower_bound .. (cfg.upper_bound - 1)

\* The timestamp schedule_new_play computes from the clock value and the
\* drawn offset (lines 265-287), or Panic.
PlayTimeFrom(cfg, anchor, off) ==
    IF anchor = Panic \/ off \notin OffsetRange(cfg) THEN Panic
    ELSE ElideLoop(cfg, AddDur(anchor, off))

NewPlayTime(cfg, current, off) ==
    PlayTimeFrom(cfg, find_last_valid_time(cfg, current), off)

\* ------------------------------------------------------- the two files
\* BaseConfig::default(): no weekdays, midnight to midnight, bounds 0 and 0.
DefaultConfig ==
    [weekdays |-> {}, start_time |-> 0, end_time |-> 0,
     lower_bound |-> 0, upper_bound |-> 0]

Config(w, s, e, l, u) ==
    [weekdays |-> w, start_time |-> s, end_time |-> e,
     lower_bound |-> l, upper_bound |-> u]

\* then.format("%Y-%m-%dT%H:%M:%S.%f\n"): the date field and the time field.
FormatTime(then) == <<DateOf(then), TimeOf(then)>>

\* contents.trim().parse::<NaiveDateTime>(): both fields, each in range.
ParseTime(text) ==
    IF /\ Len(text) = 2
       /\ text[1] \in MinDay..MaxDay
       /\ text[2] \in 0..(TicksPerDay - 1)
    THEN [ok |-> TRUE, time |-> NewDateTime(text[1], text[2])]
    ELSE [ok |-> FALSE, time |-> Panic]

\* The try block of wake (lines 122-125): read "next-play" and parse it.
ReadNextPlay(file) ==
    IF file.exists THEN ParseTime(file.text) ELSE [ok |-> FALSE, time |-> Panic]

AbsentFile == [exists |-> FALSE, text |-> <<>>]
FileWith(text) == [exists |-> TRUE, text |-> text]

\* What std::fs::write leaves behind.  kept = 2: both fields written;
\* kept = 0: the file was truncated and nothing written; kept = -1: the file
\* could not be opened and is untouched.
WriteFile(file, then, kept) ==
    IF kept < 0 THEN file ELSE FileWith(SubSeq(FormatTime(then), 1, kept))

\* ok: the write returned Ok.  Otherwise it returned Err (unwrap panics)
\* or the process was killed at that point; both end the process.
WriteOutcomes ==
    {[ok |-> TRUE, kept |-> 2]} \cup {[ok |-> FALSE, kept |-> k] : k \in -1..0}
WriteOk == [ok |-> TRUE, kept |-> 2]

\* ------------------------------------------------------ schedule_new_play
\* Context::schedule_new_play run at clock value current with the drawn
\* offset off and the write outcome wr.  The result holds the file and the
\* countdown deadline it leaves, whether the write returned Ok, and whether
\* the process ended (a panic, or a kill at the write).
CommitPlay(sleep, file, then, off, wr) ==
    IF then = Panic
    THEN [file |-> file, sleep |-> sleep, then |-> Panic, off |-> off,
          wrote |-> FALSE, crashed |-> TRUE]
    ELSE IF ~wr.ok
    THEN [file |-> WriteFile(file, then, wr.kept), sleep |-> sleep,
          then |-> then, off |-> off, wrote |-> FALSE, crashed |-> TRUE]
    ELSE [file |-> WriteFile(file, then, wr.kept), sleep |-> then,
          then |-> then, off |-> off, wrote |-> TRUE, crashed |-> FALSE]

schedule_new_play(cfg, sleep, file, current, off, wr) ==
    CommitPlay(sleep, file, NewPlayTime(cfg, current, off), off, wr)

\* ---------------------------------------------------------------- wake
\* A pass that left everything as it was.
Untouched(config, sleep, file, branch, np, crashed) ==
    [config |-> config, sleep |-> sleep, file |-> file, branch |-> branch,
     played |-> FALSE, wrote |-> FALSE, crashed |-> crashed,
     then |-> Panic, off |-> Panic, np_ok |-> np.ok, next_play |-> np.time]

\* A pass that went through schedule_new_play, with result r.
Scheduled(config, r, branch, np, played) ==
    [config |-> config, sleep |-> r.sleep, file |-> r.file, branch |-> branch,
     played |-> played, wrote |-> r.wrote, crashed |-> r.crashed,
     then |-> r.then, off |-> r.off, np_ok |-> np.ok, next_play |-> np.time]

\* Context::wake.  r1, r2, r3 are the values Local::now() returns at line
\* 129 (the due test), line 135 (the validity test) and line 265
\* (schedule_new_play).
NotRead == [ok |-> FALSE, time |-> Panic]

\* The match on next_play with the validity test of line 135 left out: a
\* due play time is always played.
MatchNextPlayNoCheck(cfg, sleep, file, np, r1, r2, r3, off, wr) ==
    IF ~np.ok
    THEN Scheduled(cfg, schedule_new_play(cfg, sleep, file, r3, off, wr),
                   "nofile", np, FALSE)
    ELSE IF np.time < r1
    THEN Scheduled(cfg, schedule_new_play(cfg, sleep, file, r3, off, wr),
                   "play", np, TRUE)
    ELSE Untouched(cfg, np.time, file, "wait", np, FALSE)

\* The match on next_play with the due test of line 131 as `diff <= 0`.
MatchNextPlayLe(cfg, sleep, file, np, r1, r2, r3, off, wr) ==
    IF ~np.ok
    THEN Scheduled(cfg, schedule_new_play(cfg, sleep, file, r3, off, wr),
                   "nofile", np, FALSE)
    ELSE IF np.time <= r1
    THEN Scheduled(cfg, schedule_new_play(cfg, sleep, file, r3, off, wr),
                   IF is_time_valid(cfg, r2) THEN "play" ELSE "invalid",
                   np, is_time_valid(cfg, r2))
    ELSE Untouched(cfg, np.time, file, "wait", np, FALSE)

\* The match on next_play with the reset of lines 156-162 left out: the wait
\* branch leaves the countdown as it was.
MatchNextPlayNoReset(cfg, sleep, file, np, r1, r2, r3, off, wr) ==
    IF ~np.ok
    THEN Scheduled(cfg, schedule_new_play(cfg, sleep, file, r3, off, wr),
                   "nofile", np, FALSE)
    ELSE IF np.time < r1
    THEN Scheduled(cfg, schedule_new_play(cfg, sleep, file, r3, off, wr),
                   IF is_time_valid(cfg, r2) THEN "play" ELSE "invalid",
                   np, is_time_valid(cfg, r2))
    ELSE Untouched(cfg, sleep, file, "wait", np, FALSE)

\* The match on next_play (lines 127-172), with the configuration cfg just
\* loaded and np the result of reading next-play.
MatchNextPlay(cfg, sleep, file, np, r1, r2, r3, off, wr) ==
    IF ~np.ok
    THEN Scheduled(cfg, schedule_new_play(cfg, sleep, file, r3, off, wr),
                   "nofile", np, FALSE)
    ELSE IF np.time < r1
    THEN Scheduled(cfg, schedule_new_play(cfg, sleep, file, r3, off, wr),
                   IF is_time_valid(cfg, r2) THEN "play" ELSE "invalid",
                   np, is_time_valid(cfg, r2))
    ELSE Untouched(cfg, np.time, file, "wait", np, FALSE)

wake(cfgFile, config, sleep, file, r1, r2, r3, off, wr) ==
    IF cfgFile.kind = "missing"
    THEN Untouched(config, sleep, file, "config_unreadable", NotRead, TRUE)
    ELSE IF cfgFile.kind = "malformed"
    THEN Untouched(config, sleep, file, "config_malformed", NotRead, FALSE)
    ELSE MatchNextPlay(cfgFile.cfg, sleep, file, ReadNextPlay(file),
                       r1, r2, r3, off, wr)

\* ------------------------------------------------------------ the state
VARIABLES
    now,               \* the wall clock (Local::now), in ticks
    status,            \* "boot": Context built, run() not yet entered;
                       \* "idle": waiting in select!; "crashed": process ended
    config,            \* Context::config
    sleep,             \* the deadline of Context::sleep
    nextPlay,          \* the file "next-play"
    configFile,        \* the file "config.toml"
    channel,           \* batches the debouncer has sent and run() not yet received
    playsSinceCommit,  \* play_sound calls since the last completed write of next-play
    last               \* what the latest wake() pass saw and did

vars == <<now, status, config, sleep, nextPlay, configFile, channel,
          playsSinceCommit, last>>

Workdays == Mon..Fri

\* The clock starts on the second Friday of the date range, at the tick
\* after midnight.
FirstNow == NewDateTime(DaysPerWeek + Fri, 1)
MaxNow == FirstNow + ClockSpan

\* The configurations config.toml takes in this model: the working week with
\* offsets 1..3; the same without Friday and with offsets 0..1; one whose
\* bounds are equal; one with no weekday at all.
Configs ==
    { Config(Workdays, 1, 2, 1, 4),
      Config(Workdays \ {Fri}, 1, 2, 0, 2),
      Config(Workdays, 1, 2, 2, 2),
      Config({}, 1, 2, 1, 3) }

ConfigFiles ==
    {[kind |-> "ok", cfg |-> c] : c \in Configs}
        \cup {[kind |-> k, cfg |-> DefaultConfig] : k \in {"malformed", "missing"}}

\* next-play as the disk may hold it when the process starts: absent, a text
\* that is no timestamp (its date is out of range), or a timestamp.
InitPlayTimes == {FirstNow - 3} \cup (FirstNow..(FirstNow + 2))

NextPlayFiles ==
    {AbsentFile, FileWith(<<MaxDay + 1, 0>>)}
        \cup {FileWith(FormatTime(t)) : t \in InitPlayTimes}

\* next-play holds a write that did not complete.
Torn(file) == file.exists /\ Len(file.text) < 2

NoPass ==
    [kind |-> "none", branch |-> "none", played |-> FALSE, wrote |-> FALSE,
     crashed |-> FALSE, np_ok |-> FALSE, next_play |-> Panic, then |-> Panic,
     off |-> Panic, r1 |-> Panic, r2 |-> Panic, allowed_before |-> FALSE]

\* main (lines 27-31): the default configuration and a countdown of
\* Duration::MAX; the two files are whatever the disk holds.
Init ==
    /\ now = FirstNow
    /\ status = "boot"
    /\ config = DefaultConfig
    /\ sleep = FarFuture
    /\ nextPlay \in NextPlayFiles
    /\ configFile \in ConfigFiles
    /\ channel = <<>>
    /\ playsSinceCommit = 0
    /\ last = NoPass

\* The clock values a handler reads, in order: each at most MaxDrift later
\* than the one before.
ClockReads ==
    {r \in (now..MaxNow) \X (now..MaxNow) \X (now..MaxNow) :
        /\ r[1] - now <= MaxDrift
        /\ r[1] <= r[2] /\ r[2] - r[1] <= MaxDrift
        /\ r[2] <= r[3] /\ r[3] - r[2] <= MaxDrift}

\* thread_rng().gen_range(..): any offset of the range; Panic stands for the
\* draw from an empty range.
Draws(cfg) == IF OffsetRange(cfg) = {} THEN {Panic} ELSE OffsetRange(cfg)

\* One call of self.wake() from run(), of the given kind ("startup": line
\* 75, "events" and "errors": line 97, "timer": line 101).
\* The state a pass with result res leaves.
Finish(kind, r, res) ==
    /\ (res.played /\ ~res.wrote) => playsSinceCommit < MaxPlays
    /\ now' = r[3]
    /\ status' = IF res.crashed THEN "crashed" ELSE "idle"
    /\ config' = res.config
    /\ sleep' = res.sleep
    /\ nextPlay' = res.file
    /\ playsSinceCommit' =
         IF res.wrote THEN 0
         ELSE IF res.played THEN playsSinceCommit + 1
         ELSE playsSinceCommit
    /\ last' = [kind |-> kind, branch |-> res.branch, played |-> res.played,
                wrote |-> res.wrote, crashed |-> res.crashed,
                np_ok |-> res.np_ok, next_play |-> res.next_play,
                then |-> res.then, off |-> res.off, r1 |-> r[1], r2 |-> r[2],
                allowed_before |-> WeekdayOf(r[2]) \in config.weekdays]

Pass(kind) ==
    \E r \in ClockReads, wr \in WriteOutcomes :
      \E off \in Draws(configFile.cfg) :
        Finish(kind, r,
               wake(configFile, config, sleep, nextPlay, r[1], r[2], r[3], off, wr))

\* run(), line 75: the pass made before the loop is entered.
Startup ==
    /\ status = "boot"
    /\ Pass("startup")
    /\ UNCHANGED <<configFile, channel>>

\* The channel.recv() arm, an Ok batch (lines 83-90), then line 97.
ConfigEvents ==
    /\ status = "idle"
    /\ channel # <<>> /\ Head(channel) = "events"
    /\ channel' = Tail(channel)
    /\ Pass("events")
    /\ UNCHANGED configFile

\* The channel.recv() arm, an Err batch (lines 91-95), then line 97.
WatchErrors ==
    /\ status = "idle"
    /\ channel # <<>> /\ Head(channel) = "errors"
    /\ channel' = Tail(channel)
    /\ Pass("errors")
    /\ UNCHANGED configFile

\* The sleep arm (lines 99-102): the countdown has elapsed.  An elapsed
\* Sleep that is not reset stays ready.
TimerElapsed ==
    /\ status = "idle"
    /\ now >= sleep
    /\ Pass("timer")
    /\ UNCHANGED <<configFile, channel>>

\* ------------------------------------------------------ the environment
Tick ==
    /\ now < MaxNow
    /\ now' = now + 1
    /\ UNCHANGED <<status, config, sleep, nextPlay, configFile, channel,
                   playsSinceCommit, last>>

\* config.toml is rewritten; a running process is sent a batch of events.
EditConfig ==
    /\ status = "idle" => Len(channel) < MaxPending
    /\ \E f \in ConfigFiles \ {configFile} : configFile' = f
    /\ channel' = IF status = "idle" THEN Append(channel, "events") ELSE channel
    /\ UNCHANGED <<now, status, config, sleep, nextPlay, playsSinceCommit, last>>

\* The watcher reports a batch of errors.
WatcherFails ==
    /\ status = "idle"
    /\ Len(channel) < MaxPending
    /\ channel' = Append(channel, "errors")
    /\ UNCHANGED <<now, status, config, sleep, nextPlay, configFile,
                   playsSinceCommit, last>>

\* The process is stopped (if it still runs) and started again: main builds
\* a fresh Context; only the two files survive.
Restart ==
    /\ status \in {"idle", "crashed"}
    /\ status' = "boot"
    /\ config' = DefaultConfig
    /\ sleep' = FarFuture
    /\ channel' = <<>>
    /\ last' = NoPass
    /\ UNCHANGED <<now, nextPlay, configFile, playsSinceCommit>>

Next ==
    \/ Startup
    \/ ConfigEvents
    \/ WatchErrors
    \/ TimerElapsed
    \/ Tick
    \/ EditConfig
    \/ WatcherFails
    \/ Restart

Spec == Init /\ [][Next]_vars

\* ------------------------------------------- schedule_new_play on its own
\* A second specification: schedule_new_play is run once, from any clock
\* value of one week (the second of the date range, so that a search back
\* through a whole week stays inside the range), under any window of WindowSets x time-of-day bounds
\* and with any offset of 0..MaxOffset, or with both bounds of the offset
\* range equal to 0.
Week == DaysPerWeek * TicksPerDay
SchedTimes == (MinTime + Week)..(MinTime + 2 * Week - 1)

WindowSets ==
    {w \in SUBSET (0..(DaysPerWeek - 1)) : Cardinality(w) \in {0, 1, 6, 7}}
        \cup {Workdays, {0, 2}, {5, 6}}

SchedConfigs ==
    {c \in {Config(w, s, e, 0, u) :
                w \in WindowSets,
                s \in 0..(TicksPerDay - 1),
                e \in 0..(TicksPerDay - 1),
                u \in {0, MaxOffset + 1}} : c.start_time <= c.end_time}

SchedInit ==
    /\ now \in SchedTimes
    /\ status = "boot"
    /\ config \in SchedConfigs
    /\ sleep = FarFuture
    /\ nextPlay = AbsentFile
    /\ configFile = [kind |-> "ok", cfg |-> config]
    /\ channel = <<>>
    /\ playsSinceCommit = 0
    /\ last = NoPass

SchedulePass ==
    /\ status = "boot"
    /\ \E off \in Draws(config) :
         Finish("schedule", <<now, now, now>>,
                Scheduled(config,
                          schedule_new_play(config, sleep, nextPlay, now, off, WriteOk),
                          "schedule", NotRead, FALSE))
    /\ UNCHANGED <<configFile, channel>>

SchedNext == SchedulePass

SchedSpec == SchedInit /\ [][SchedNext]_vars

\* ------------------------------------------- the snap functions on their own
\* A third specification: find_last_valid_time and find_next_valid_time are
\* applied to any timestamp of one week, under any window of SchedConfigs.
SnapInit ==
    /\ now \in SchedTimes
    /\ status = "boot"
    /\ config \in SchedConfigs
    /\ sleep = FarFuture
    /\ nextPlay = AbsentFile
    /\ configFile = [kind |-> "ok", cfg |-> config]
    /\ channel = <<>>
    /\ playsSinceCommit = 0
    /\ last = NoPass

SnapPass ==
    /\ status = "boot"
    /\ status' = "idle"
    /\ last' = [kind |-> "snap", time |-> now,
                last_valid |-> find_last_valid_time(config, now),
                next_valid |-> find_next_valid_time(config, now)]
    /\ UNCHANGED <<now, config, sleep, nextPlay, configFile, channel,
                   playsSinceCommit>>

SnapNext == SnapPass

SnapSpec == SnapInit /\ [][SnapNext]_vars

\* ==================================================================
\* The properties.
\* ==================================================================

\* The validity of a timestamp as the specification states it: its weekday
\* is allowed and its time of day lies in [start, end], both ends included.
isValid(cfg, t) ==
    /\ WeekdayOf(t) \in cfg.weekdays
    /\ TimeOf(t) \in cfg.start_time..cfg.end_time

\* The latest pass loaded config.toml (it did not stop at lines 110-116).
Loaded == last.kind # "none" /\ last.branch \notin {"config_malformed", "config_unreadable"}

\* The persisted record holds the timestamp t.
Persisted(t) == ReadNextPlay(nextPlay) = [ok |-> TRUE, time |-> t]

\* C1: play_sound is called only in a pass that found the persisted play
\* time reached and the clock value of its validity test inside the window
\* of the configuration then loaded; a pass that finds the play time passed
\* and the window closed calls no play_sound and goes on to reschedule.
C1_FireOnlyDueAndValid ==
    /\ last.played =>
          /\ last.np_ok
          /\ last.next_play <= last.r1
          /\ isValid(config, last.r2)
    /\ (Loaded /\ last.np_ok /\ last.next_play < last.r1 /\ ~isValid(config, last.r2)) =>
          /\ ~last.played
          /\ last.branch = "invalid"

\* C1 witness: a countdown elapse played the sound and committed a new time.
C1_Witness ==
    /\ last.kind = "timer"
    /\ last.played
    /\ last.wrote

\* C2: whenever schedule_new_play returns, for a window with at least one
\* weekday, the timestamp it computed is inside the window and is the one
\* the next-play file holds.
C2_ScheduledTimeIsValid ==
    (last.kind = "schedule" /\ config.weekdays # {} /\ last.wrote) =>
        /\ isValid(config, last.then)
        /\ Persisted(last.then)

\* C2 witness: a schedule that had to cross a gap (it lands later than
\* clock + offset can reach).
C2_Witness ==
    /\ last.kind = "schedule"
    /\ config.weekdays # {}
    /\ last.wrote
    /\ last.then > now + MaxOffset

\* C3: across restarts no committed play time is played twice: play_sound
\* is called at most once between two completed writes of next-play.
C3_NoDoubleFire ==
    playsSinceCommit <= 1

\* C3, the persisted record: the next-play file never holds a write that
\* did not complete.
C3_NoTornRecord ==
    ~Torn(nextPlay)

\* C4: a startup pass that finds a persisted play time in the past while the
\* window is open calls play_sound once and commits exactly one new time.
C4_StartupOpenWindow ==
    (/\ last.kind = "startup"
     /\ Loaded
     /\ last.np_ok
     /\ last.next_play < last.r1
     /\ isValid(config, last.r2)) =>
        /\ last.played
        /\ last.wrote
        /\ Persisted(last.then)

\* C5: a startup pass that finds a persisted play time in the past while the
\* window (of a configuration with at least one weekday) is closed calls no
\* play_sound and commits exactly one new time.
C5_StartupClosedWindow ==
    (/\ last.kind = "startup"
     /\ Loaded
     /\ config.weekdays # {}
     /\ last.np_ok
     /\ last.next_play < last.r1
     /\ ~isValid(config, last.r2)) =>
        /\ ~last.played
        /\ last.wrote
        /\ Persisted(last.then)

\* C6: a pass that finds next-play absent or unparseable (under a
\* configuration with at least one weekday) calls no play_sound, commits the
\* newly scheduled time and sets the countdown to it.
C6_NoRecordSchedules ==
    (/\ Loaded
     /\ config.weekdays # {}
     /\ ~last.np_ok) =>
        /\ ~last.played
        /\ last.wrote
        /\ Persisted(last.then)
        /\ sleep = last.then

\* The pass that follows a configuration change found a persisted play time
\* and loaded a configuration (with at least one weekday) that leaves out
\* the weekday of the clock value, which the configuration before allowed;
\* the persisted play time is outside the new window.
ReloadExcludesToday ==
    /\ last.kind = "events"
    /\ Loaded
    /\ last.np_ok
    /\ config.weekdays # {}
    /\ last.allowed_before
    /\ ~isValid(config, last.next_play)
    /\ WeekdayOf(last.r2) \notin config.weekdays

C8_MalformedConfigStillEvaluates ==
    [][((ConfigEvents \/ TimerElapsed) /\ configFile.kind = "malformed") =>
          /\ status' = "idle"
          /\ config' = config
          /\ last'.branch \in {"wait", "play", "invalid", "nofile"}]_vars

\* C9: receiving a batch of errors runs no pass: it calls no play_sound,
\* leaves the persisted play time, the countdown and the loaded
\* configuration as they were, and the loop goes on.
C9_ErrorBatchOnlyLogged ==
    [][WatchErrors =>
          /\ ~last'.played
          /\ nextPlay' = nextPlay
          /\ sleep' = sleep
          /\ config' = config
          /\ status' = "idle"]_vars

\* C10: schedule_new_play under a window with no weekday ends in a panic,
\* leaving the next-play file as it was, and the day-stepping search that
\* leads there takes no more turns than the date range has days.
C10_EmptyWeekdaysPanics ==
    (last.kind = "schedule" /\ config.weekdays = {}) =>
        /\ last.crashed
        /\ last.then = Panic
        /\ status = "crashed"
        /\ nextPlay = AbsentFile
        /\ StepCount(config, now, -1) <= MaxDay - MinDay + 1

\* C10 witness: such a schedule has run and the process has ended.
C10_Witness ==
    /\ last.kind = "schedule"
    /\ config.weekdays = {}
    /\ status = "crashed"

\* C11: under a window with at least one weekday and start <= end, and an
\* offset range that is not empty, schedule_new_play comes to the end of its
\* snap and gap-elision loops with a timestamp: no loop runs on until the
\* date arithmetic overflows.
C11_ScheduleTerminates ==
    (/\ last.kind = "schedule"
     /\ config.weekdays # {}
     /\ config.lower_bound < config.upper_bound) =>
        last.then # Panic

\* C12: under a window with at least one weekday, each snap function
\* returns a timestamp inside the window.
C12_SnapsLandValid ==
    (last.kind = "snap" /\ config.weekdays # {}) =>
        /\ last.last_valid # Panic
        /\ last.next_valid # Panic
        /\ isValid(config, last.last_valid)
        /\ isValid(config, last.next_valid)

\* C12 witness: both snaps were applied to a timestamp outside the window
\* and both moved it.
C12_Witness ==
    /\ last.kind = "snap"
    /\ config.weekdays # {}
    /\ ~isValid(config, last.time)
    /\ last.last_valid \notin {Panic, last.time}
    /\ last.next_valid \notin {Panic, last.time}

\* C13: under a window with at least one weekday, find_last_valid_time(t)
\* is the greatest valid timestamp at or before t and
\* find_next_valid_time(t) the least valid timestamp at or after t: neither
\* passes t in the other direction, and no valid timestamp lies strictly
\* between the result and t.
C13_SnapsAreNearest ==
    (last.kind = "snap" /\ config.weekdays # {}) =>
        /\ last.last_valid \in MinTime..last.time
        /\ isValid(config, last.last_valid)
        /\ \A u \in (last.last_valid + 1)..last.time : ~isValid(config, u)
        /\ last.next_valid \in last.time..MaxTime
        /\ isValid(config, last.next_valid)
        /\ \A u \in last.time..(last.next_valid - 1) : ~isValid(config, u)

\* C13 witness: the snaps were applied to a timestamp after the end of the
\* window on an allowed weekday whose next day is not allowed: the earlier
\* snap stays on the day, the later one crosses more than one day.
C13_Witness ==
    /\ last.kind = "snap"
    /\ WeekdayOf(last.time) \in config.weekdays
    /\ TimeOf(last.time) > config.end_time
    /\ DateOf(last.last_valid) = DateOf(last.time)
    /\ DateOf(last.next_valid) > DateOf(last.time) + 1

\* C14: with both bounds of the offset range equal to 0 and a clock value
\* inside the window, schedule_new_play completes and commits the clock
\* value itself.
C14_ZeroRangeReturnsNow ==
    (/\ last.kind = "schedule"
     /\ config.lower_bound = 0 /\ config.upper_bound = 0
     /\ isValid(config, now)) =>
        /\ last.wrote
        /\ last.then = now
        /\ Persisted(now)

\* C15: Monday to Friday, the window from tick 1 to tick 2 of the day, the
\* clock on Friday one tick before the end and an offset of two ticks: the
\* candidate Friday tick 3 is outside the window, one tick past the last
\* valid time Friday tick 2, and schedule_new_play commits Monday tick 2,
\* the next valid time after the candidate plus that one tick.
C15_FridayOvershoot ==
    (/\ last.kind = "schedule"
     /\ config.weekdays = Workdays
     /\ config.start_time = 1 /\ config.end_time = 2
     /\ now = FirstNow
     /\ last.off = 2) =>
        /\ ~isValid(config, now + 2)
        /\ find_last_valid_time(config, now + 2) = NewDateTime(DaysPerWeek + Fri, 2)
        /\ (now + 2) - find_last_valid_time(config, now + 2) = 1
        /\ last.then = find_next_valid_time(config, now + 2) + 1
        /\ last.then = NewDateTime(2 * DaysPerWeek + Mon, 2)
        /\ Persisted(last.then)

\* C15 witness: that schedule has run.
C15_Witness ==
    /\ last.kind = "schedule"
    /\ config.weekdays = Workdays
    /\ config.start_time = 1 /\ config.end_time = 2
    /\ now = FirstNow
    /\ last.off = 2
    /\ last.wrote

\* C16: a pass whose write of the newly computed play time did not succeed
\* leaves the process running, the next-play file not torn, and the
\* countdown set to the computed time.
C16_WriteFailureSurvived ==
    (/\ last.branch \in {"nofile", "play", "invalid"}
     /\ last.then # Panic
     /\ ~last.wrote) =>
        /\ status = "idle"
        /\ ~Torn(nextPlay)
        /\ sleep = last.then

\* The valid time between a and b under the window of cfg: the sum, over
\* the allowed days from day d on, of the length of [a, b] inside the
\* day's window.
RECURSIVE ValidTimeFrom(_, _, _, _)
ValidTimeFrom(cfg, d, a, b) ==
    IF d > DateOf(b) THEN 0
    ELSE (IF d % DaysPerWeek \in cfg.weekdays
          THEN LET lo == IF a > NewDateTime(d, cfg.start_time)
                         THEN a ELSE NewDateTime(d, cfg.start_time)
                   hi == IF b < NewDateTime(d, cfg.end_time)
                         THEN b ELSE NewDateTime(d, cfg.end_time)
               IN  IF hi > lo THEN hi - lo ELSE 0
          ELSE 0) + ValidTimeFrom(cfg, d + 1, a, b)

ValidTimeBetween(cfg, a, b) == ValidTimeFrom(cfg, DateOf(a), a, b)

\* C17: the valid time between the anchor (the last valid time at or before
\* the clock value) and the timestamp schedule_new_play commits equals the
\* drawn offset.
C17_ElidedOffsetExact ==
    (last.kind = "schedule" /\ config.weekdays # {} /\ last.wrote) =>
        ValidTimeBetween(config, find_last_valid_time(config, now), last.then)
            = last.off

\* C18: a pass started by a configuration change or by the countdown that
\* reads a play time later than the clock value leaves the next-play file as
\* it was, calls no play_sound, sets the countdown to exactly that play
\* time, and the loop goes on.
C18_NotDuePassWaits ==
    [][((ConfigEvents \/ TimerElapsed)
            /\ last'.np_ok /\ last'.next_play > last'.r1) =>
          /\ nextPlay' = nextPlay
          /\ ~last'.played
          /\ sleep' = last'.next_play
          /\ status' = "idle"]_vars

\* C18 witness: a pass started by a configuration change found the play
\* time not reached and waits for it.
C18_Witness ==
    /\ last.kind = "events"
    /\ last.np_ok
    /\ last.next_play > last.r1
    /\ last.branch = "wait"
    /\ sleep = last.next_play

\* C19: a pass that reads a play time equal to the clock value of its due
\* test takes the due branch: it plays if the window is open and
\* reschedules.
C19_DueAtEquality ==
    (Loaded /\ config.weekdays # {} /\ last.np_ok /\ last.next_play = last.r1) =>
        /\ last.branch \in {"play", "invalid"}
        /\ last.played = isValid(config, last.r2)

\* C20: under a window with at least one weekday, the timestamp
\* schedule_new_play commits is never earlier than the clock value it was
\* computed from.
C20_ScheduledNotBeforeNow ==
    (last.kind = "schedule" /\ config.weekdays # {} /\ last.wrote) =>
        last.then >= now

====
